---- MODULE Spec2Model ----
(***************************************************************************)
(* Model of the podcast automation pipeline:                               *)
(*   - Feed Watcher      scripts/podcast_to_kilo.py (and its near copy     *)
(*                       .github/scripts/podcast_to_kilo.py)               *)
(*   - Summary Publisher scripts/summarize_podcast.py                      *)
(* Text is modelled as a sequence of one-character strings, so that the    *)
(* slug and date conversions are computed character by character.          *)
(***************************************************************************)
EXTENDS Integers, Sequences, FiniteSets, TLC

(* ----------------------------- bounds ---------------------------------- *)
MaxFeedLen == 2
MaxRuns == 2
MaxTitleLen == 4
MaxInvocations == 2
MaxDays == 2

(* ======================================================================= *)
(*                              FEED WATCHER                               *)
(* ======================================================================= *)

\* Python's None
None == "<None>"

Procs == {1, 2}

\* the scheduler's single slot when runs do not overlap
SeqProcs == {1}

\* values a feed entry may carry in guid / id / link (None = key absent)
GuidVals == {None, "g"}
IdVals == {"", "i"}
LinkVals == {None, "l"}

Entries == [guid : GuidVals, id : IdVals, link : LinkVals]

NoEntry == [guid |-> "<no entry>", id |-> "<no entry>", link |-> "<no entry>"]

\* HTTP status codes the webhook answers with; Raised = requests.post raised
\* (timeout, connection error) and NoStatus = no request made yet
Raised == -1
NoStatus == 0
StatusCodes == {200, 304, 500}

VARIABLES
    feed,        \* the RSS feed as served: sequence of entries, newest first
    stateFile,   \* .podcast_state.json: [exists, last_guid]
    pc,          \* position of each watcher run
    state,       \* main's local `state` dict (its last_guid)
    latest,      \* main's local `latest`
    guid,        \* main's local `guid`
    seenLen,     \* history: length of the feed when the run fetched it
    status,      \* r.status_code of the run's POST (or Raised / NoStatus)
    preFile,     \* history: stateFile as it was when the run started
    nwrites,     \* history: save_state calls made by the run
    nposts,      \* history: requests.post calls made by the run
    posts,       \* history: POSTs the webhook received, oldest first
    lastEnd,     \* history: how the most recently ended run ended
    prevEnd,     \* history: lastEnd as it was when the run started
    runs,        \* history: runs started so far
    overlapped,  \* history: some run started while another was active
    slugIn,      \* sanitize_filename: the text passed in
    slugOut,     \* sanitize_filename: the slug returned
    slugDone,    \* sanitize_filename: has returned
    nmTitle,     \* file naming: the payload's title
    nmPublished, \* file naming: the payload's published field
    today,       \* the current UTC date (datetime.utcnow())
    names,       \* file naming: what each invocation so far derived
    envPayload,  \* publisher input: os.environ.get('PODCAST_PAYLOAD')
    stdinText,   \* publisher input: what sys.stdin.read() returns
    ppc,         \* publisher: position in main
    payload,     \* publisher: the parsed payload
    title,       \* publisher locals
    published,
    episode_url,
    audio_url,
    safe_date,
    safe_title,
    transcript,
    summary,
    tool,        \* transcribe_audio: how far the transcription tool got
    summaryFile, \* file system: lines of summaries/<date>-<slug>.md, or NoFile
    tempAudio,   \* file system: the temporary audio file exists
    git,         \* repository: [branch, staged, committed, pushed, pr]
    events,      \* history: publication steps attempted, in order
    audioLog     \* history: download and unlink of the temporary audio

wvars == <<feed, stateFile, pc, state, latest, guid, seenLen, status, preFile,
           nwrites, nposts, posts, lastEnd, prevEnd, runs, overlapped>>

svars == <<slugIn, slugOut, slugDone>>

nvars == <<nmTitle, nmPublished, today, names>>

pvars == <<envPayload, stdinText, ppc, payload, title, published, episode_url,
           audio_url, safe_date, safe_title, transcript, summary, tool,
           summaryFile, tempAudio, git, events, audioLog>>

vars == <<wvars, svars, nvars, pvars>>

\* the Summary Publisher's variables, which the watcher never touches
others == <<svars, nvars, pvars>>

\* Python values are modelled as [t, v]: the type and, for a string, its text
NoneVal == [t |-> "none", v |-> <<>>]
AbsentVal == [t |-> "absent", v |-> <<>>]

NoFile == <<"<no file>">>

\* a fresh clone: no publication branch, nothing staged, committed or pushed
CleanRepo == [branch |-> FALSE, staged |-> FALSE, committed |-> FALSE,
              pushed |-> FALSE, pr |-> FALSE]

NoDoc == [kind |-> "none", title |-> AbsentVal, published |-> AbsentVal,
          episodeUrl |-> AbsentVal, audioUrl |-> AbsentVal]

EmptySummary ==
    [title |-> AbsentVal, published |-> AbsentVal, episode_url |-> AbsentVal,
     has_transcript |-> FALSE, short_summary |-> <<>>, detailed_summary |-> <<>>,
     key_takeaways |-> <<>>, action_items |-> <<>>]

\* the publisher's state before main has run, whatever its input
PublisherFresh ==
    /\ ppc = "start"
    /\ payload = NoDoc
    /\ title = AbsentVal
    /\ published = AbsentVal
    /\ episode_url = AbsentVal
    /\ audio_url = AbsentVal
    /\ safe_date = <<>>
    /\ safe_title = <<>>
    /\ transcript = NoneVal
    /\ summary = EmptySummary
    /\ tool = "unused"
    /\ summaryFile = NoFile
    /\ tempAudio = FALSE
    /\ git = CleanRepo
    /\ events = <<>>
    /\ audioLog = <<>>

PublisherIdle ==
    /\ envPayload = [t |-> "unset", doc |-> NoDoc]
    /\ stdinText = [t |-> "empty", doc |-> NoDoc]
    /\ PublisherFresh

SlugIdle ==
    /\ slugIn = <<>>
    /\ slugOut = <<>>
    /\ slugDone = FALSE

\* the day the model starts on
StartDay == [y |-> 2024, m |-> 12, d |-> 30]

NamingIdle ==
    /\ nmTitle = <<>>
    /\ nmPublished = <<>>
    /\ today = StartDay
    /\ names = <<>>

OthersIdle ==
    /\ SlugIdle
    /\ NamingIdle
    /\ PublisherIdle

AbsentFile == [exists |-> FALSE, last_guid |-> None]

\* Python truthiness of an optional string
Truthy(v) == v # None /\ v # ""

\* `a or b or c`
Or3(a, b, c) == IF Truthy(a) THEN a ELSE IF Truthy(b) THEN b ELSE c

\* (mutation of load_state: the stored identifier is never read back)
load_state_forgetful(file) == None

\* load_state()
load_state(file) == IF file.exists THEN file.last_guid ELSE None

\* (mutation of save_state: the identifier is not written)
save_state_blank(lg) == [exists |-> TRUE, last_guid |-> None]

\* save_state(state)
save_state(lg) == [exists |-> TRUE, last_guid |-> lg]

\* (mutation of NewestEntry: the last entry of the list is taken)
NewestEntry_last(f) == f[Len(f)]

\* feed.entries[0]
NewestEntry(f) == f[1]

\* latest.get("guid") or latest.get("id") or latest.get("link")
EntryGuid(e) == Or3(e.guid, e.id, e.link)

\* Response.raise_for_status(): raises for 4xx and 5xx
RaisesForStatus(s) == 400 <= s /\ s < 600

Is2xx(s) == 200 <= s /\ s < 300

\* how a run ended and the entry it was about
EndOf(how, e, s) == [how |-> how, entry |-> e, status |-> s]
NoEnd == EndOf("none", NoEntry, NoStatus)

Active(p) == pc[p] \in {"loaded", "fetched", "post", "responded"}
Ended(p) == pc[p] \in {"exit_ok", "exit_nonew", "exit_fail", "crashed"}

\* no run made yet, no state file
WInitRuns ==
    /\ stateFile = AbsentFile
    /\ pc = [p \in Procs |-> "idle"]
    /\ state = [p \in Procs |-> None]
    /\ latest = [p \in Procs |-> NoEntry]
    /\ guid = [p \in Procs |-> None]
    /\ seenLen = [p \in Procs |-> 0]
    /\ status = [p \in Procs |-> NoStatus]
    /\ preFile = [p \in Procs |-> AbsentFile]
    /\ nwrites = [p \in Procs |-> 0]
    /\ nposts = [p \in Procs |-> 0]
    /\ posts = <<>>
    /\ lastEnd = NoEnd
    /\ prevEnd = [p \in Procs |-> NoEnd]
    /\ runs = 0
    /\ overlapped = FALSE

WInit ==
    /\ feed = <<>>
    /\ WInitRuns

\* main, line 21: a run starts and reads the state file
StartRun(p) ==
    /\ pc[p] = "idle" \/ Ended(p)
    /\ runs < MaxRuns
    /\ runs' = runs + 1
    /\ overlapped' = (overlapped \/ \E q \in Procs \ {p} : Active(q))
    /\ pc' = [pc EXCEPT ![p] = "loaded"]
    /\ state' = [state EXCEPT ![p] = load_state(stateFile)]
    /\ latest' = [latest EXCEPT ![p] = NoEntry]
    /\ guid' = [guid EXCEPT ![p] = None]
    /\ seenLen' = [seenLen EXCEPT ![p] = 0]
    /\ status' = [status EXCEPT ![p] = NoStatus]
    /\ preFile' = [preFile EXCEPT ![p] = stateFile]
    /\ prevEnd' = [prevEnd EXCEPT ![p] = lastEnd]
    /\ nwrites' = [nwrites EXCEPT ![p] = 0]
    /\ nposts' = [nposts EXCEPT ![p] = 0]
    /\ UNCHANGED <<feed, stateFile, posts, lastEnd,
                   others>>

\* one scheduled run at a time
StartSeq(p) ==
    /\ \A q \in Procs \ {p} : ~Active(q)
    /\ StartRun(p)

\* main, lines 23-25: the feed has no entries, RuntimeError
FetchEmpty(p) ==
    /\ pc[p] = "loaded"
    /\ feed = <<>>
    /\ pc' = [pc EXCEPT ![p] = "exit_fail"]
    /\ lastEnd' = EndOf("feed_empty", NoEntry, NoStatus)
    /\ UNCHANGED <<feed, stateFile, state, latest, guid, seenLen, status, preFile,
                   nwrites, nposts, posts, prevEnd, runs, overlapped,
                   others>>

\* main, lines 23-33: newest entry, its identifier, the idempotency guard
FetchEntry(p) ==
    /\ pc[p] = "loaded"
    /\ feed # <<>>
    /\ LET e == NewestEntry(feed)
           g == EntryGuid(e)
       IN /\ latest' = [latest EXCEPT ![p] = e]
          /\ seenLen' = [seenLen EXCEPT ![p] = Len(feed)]
          /\ guid' = [guid EXCEPT ![p] = g]
          /\ IF state[p] = g
             THEN /\ pc' = [pc EXCEPT ![p] = "exit_nonew"]
                  /\ lastEnd' = EndOf("nonew", e, NoStatus)
             ELSE /\ pc' = [pc EXCEPT ![p] = "post"]
                  /\ UNCHANGED lastEnd
    /\ UNCHANGED <<feed, stateFile, state, status, preFile,
                   nwrites, nposts, posts, prevEnd, runs, overlapped,
                   others>>

\* main, lines 56-61: requests.post answers with a status code
PostAnswered(p) ==
    /\ pc[p] = "post"
    /\ \E s \in StatusCodes :
          /\ status' = [status EXCEPT ![p] = s]
          /\ posts' = Append(posts, [entry |-> latest[p], status |-> s])
    /\ nposts' = [nposts EXCEPT ![p] = nposts[p] + 1]
    /\ pc' = [pc EXCEPT ![p] = "responded"]
    /\ UNCHANGED <<feed, stateFile, state, latest, guid, seenLen, preFile,
                   nwrites, lastEnd, prevEnd, runs, overlapped,
                   others>>

\* main, lines 56-61: requests.post raises (timeout, connection error)
PostRaises(p) ==
    /\ pc[p] = "post"
    /\ status' = [status EXCEPT ![p] = Raised]
    /\ posts' = Append(posts, [entry |-> latest[p], status |-> Raised])
    /\ nposts' = [nposts EXCEPT ![p] = nposts[p] + 1]
    /\ pc' = [pc EXCEPT ![p] = "exit_fail"]
    /\ lastEnd' = EndOf("post_failed", latest[p], Raised)
    /\ UNCHANGED <<feed, stateFile, state, latest, guid, seenLen, preFile,
                   nwrites, prevEnd, runs, overlapped,
                   others>>

\* main, lines 62-71: raise_for_status, then mark the episode as processed
Respond(p) ==
    /\ pc[p] = "responded"
    /\ IF RaisesForStatus(status[p])
       THEN /\ pc' = [pc EXCEPT ![p] = "exit_fail"]
            /\ lastEnd' = EndOf("post_failed", latest[p], status[p])
            /\ UNCHANGED <<stateFile, state, nwrites>>
       ELSE /\ state' = [state EXCEPT ![p] = guid[p]]
            /\ stateFile' = save_state(guid[p])
            /\ nwrites' = [nwrites EXCEPT ![p] = nwrites[p] + 1]
            /\ pc' = [pc EXCEPT ![p] = "exit_ok"]
            /\ lastEnd' = EndOf("ok", latest[p], status[p])
    /\ UNCHANGED <<feed, latest, guid, seenLen, status, preFile,
                   nposts, posts, prevEnd, runs, overlapped,
                   others>>

\* the process is killed between the POST's answer and the state write
Crash(p) ==
    /\ pc[p] = "responded"
    /\ pc' = [pc EXCEPT ![p] = "crashed"]
    /\ lastEnd' = EndOf("crashed", latest[p], status[p])
    /\ UNCHANGED <<feed, stateFile, state, latest, guid, seenLen, status, preFile,
                   nwrites, nposts, posts, prevEnd, runs, overlapped,
                   others>>

\* the feed's publisher adds a new episode at the head of the feed
Publish ==
    /\ Len(feed) < MaxFeedLen
    /\ \E e \in Entries : feed' = <<e>> \o feed
    /\ UNCHANGED <<stateFile, pc, state, latest, guid, seenLen, status, preFile,
                   nwrites, nposts, posts, lastEnd, prevEnd, runs, overlapped,
                   others>>

Init ==
    /\ WInit
    /\ OthersIdle

Next ==
    \/ \E p \in SeqProcs : StartSeq(p)
    \/ \E p \in SeqProcs : FetchEmpty(p)
    \/ \E p \in SeqProcs : FetchEntry(p)
    \/ \E p \in SeqProcs : PostAnswered(p)
    \/ \E p \in SeqProcs : PostRaises(p)
    \/ \E p \in SeqProcs : Respond(p)
    \/ \E p \in SeqProcs : Crash(p)
    \/ Publish

\* Feed Watcher, one scheduled run at a time, the feed growing meanwhile
Spec == Init /\ [][Next]_vars

\* Feed Watcher, runs free to overlap, against a feed that does not change
InitOverlap ==
    /\ feed \in {<<>>} \cup {<<e>> : e \in Entries}
    /\ WInitRuns
    /\ OthersIdle

NextOverlap ==
    \/ \E p \in Procs : StartRun(p)
    \/ \E p \in Procs : FetchEmpty(p)
    \/ \E p \in Procs : FetchEntry(p)
    \/ \E p \in Procs : PostAnswered(p)
    \/ \E p \in Procs : PostRaises(p)
    \/ \E p \in Procs : Respond(p)

SpecOverlap == InitOverlap /\ [][NextOverlap]_vars

(* ======================================================================= *)
(*                     SUMMARY PUBLISHER: TEXT HELPERS                     *)
(* ======================================================================= *)

UpperLetters == <<"A", "B", "C", "D", "E", "F", "G", "H", "I", "J", "K", "L", "M",
                  "N", "O", "P", "Q", "R", "S", "T", "U", "V", "W", "X", "Y", "Z">>
LowerLetters == <<"a", "b", "c", "d", "e", "f", "g", "h", "i", "j", "k", "l", "m",
                  "n", "o", "p", "q", "r", "s", "t", "u", "v", "w", "x", "y", "z">>
Digits == <<"0", "1", "2", "3", "4", "5", "6", "7", "8", "9">>

Range(f) == {f[i] : i \in DOMAIN f}

\* str.lower() on one character
LowerChar(c) ==
    IF c \in Range(UpperLetters)
    THEN LowerLetters[CHOOSE i \in DOMAIN UpperLetters : UpperLetters[i] = c]
    ELSE c

\* str.lower()
Lower(text) == [i \in DOMAIN text |-> LowerChar(text[i])]

\* regex classes \w, \s and \d
IsWordChar(c) ==
    c \in Range(UpperLetters) \cup Range(LowerLetters) \cup Range(Digits) \cup {"_"}
IsSpaceChar(c) == c \in {" ", "\t", "\n"}
IsDigit(c) == c \in Range(Digits)

\* re.sub(r'[^\w\s-]', '', slug)
StripSpecial(text) ==
    SelectSeq(text, LAMBDA c : IsWordChar(c) \/ IsSpaceChar(c) \/ c = "-")

IsSep(c) == c = "-" \/ IsSpaceChar(c)

\* re.sub(r'[-\s]+', '-', slug)
RECURSIVE CollapseSeps(_)
CollapseSeps(text) ==
    IF text = <<>> THEN <<>>
    ELSE IF IsSep(Head(text))
         THEN IF Len(text) > 1 /\ IsSep(text[2])
              THEN CollapseSeps(Tail(text))
              ELSE <<"-">> \o CollapseSeps(Tail(text))
         ELSE <<Head(text)>> \o CollapseSeps(Tail(text))

\* str.lstrip('-')
RECURSIVE LStripHyphen(_)
LStripHyphen(text) ==
    IF text # <<>> /\ Head(text) = "-" THEN LStripHyphen(Tail(text)) ELSE text

\* (mutation of RStripHyphen: nothing is trimmed at the end)
RStripHyphen_keep(text) == text

\* str.rstrip('-')
RECURSIVE RStripHyphen(_)
RStripHyphen(text) ==
    IF text # <<>> /\ text[Len(text)] = "-"
    THEN RStripHyphen(SubSeq(text, 1, Len(text) - 1))
    ELSE text

\* str.strip('-')
StripHyphen(text) == RStripHyphen(LStripHyphen(text))

\* slug[:max_length]
Take(text, n) == SubSeq(text, 1, IF Len(text) < n THEN Len(text) ELSE n)

\* the default of sanitize_filename's max_length
max_length == 50

\* sanitize_filename(text, max_length)
sanitize_filename(text, maxlen) ==
    LET slug == StripHyphen(CollapseSeps(StripSpecial(Lower(text))))
    IN IF Len(slug) > maxlen THEN RStripHyphen(Take(slug, maxlen)) ELSE slug

(* ------------------------ format_date_for_filename --------------------- *)

DigitVal(c) == (CHOOSE i \in DOMAIN Digits : Digits[i] = c) - 1

RECURSIVE NumVal(_)
NumVal(ds) ==
    IF ds = <<>> THEN 0
    ELSE NumVal(SubSeq(ds, 1, Len(ds) - 1)) * 10 + DigitVal(ds[Len(ds)])

AllDigits(text, pos, k) ==
    /\ pos + k - 1 <= Len(text)
    /\ \A i \in pos..(pos + k - 1) : IsDigit(text[i])

\* a numeric directive: the lengths in ks whose digits give a value in lo..hi
NumMatches(text, pos, ks, lo, hi) ==
    {[len |-> k, val |-> NumVal(SubSeq(text, pos, pos + k - 1))] :
        k \in {j \in ks : /\ AllDigits(text, pos, j)
                          /\ NumVal(SubSeq(text, pos, pos + j - 1)) \in lo..hi}}

\* a name directive (%a, %b, %Z): names are matched ignoring case
NameMatches(text, pos, table) ==
    {[len |-> Len(table[i]), val |-> i] :
        i \in {j \in DOMAIN table :
                  /\ pos + Len(table[j]) - 1 <= Len(text)
                  /\ Lower(SubSeq(text, pos, pos + Len(table[j]) - 1)) = table[j]}}

\* locale "C": LocaleTime.a_weekday, LocaleTime.a_month[1:]
WeekdayNames == <<<<"m", "o", "n">>, <<"t", "u", "e">>, <<"w", "e", "d">>,
                  <<"t", "h", "u">>, <<"f", "r", "i">>, <<"s", "a", "t">>,
                  <<"s", "u", "n">>>>
MonthNames == <<<<"j", "a", "n">>, <<"f", "e", "b">>, <<"m", "a", "r">>,
                <<"a", "p", "r">>, <<"m", "a", "y">>, <<"j", "u", "n">>,
                <<"j", "u", "l">>, <<"a", "u", "g">>, <<"s", "e", "p">>,
                <<"o", "c", "t">>, <<"n", "o", "v">>, <<"d", "e", "c">>>>
\* LocaleTime.timezone of a machine whose local zone is UTC
ZoneNames == <<<<"u", "t", "c">>, <<"g", "m", "t">>>>

\* \s+ : every length of the whitespace run at pos
SpaceRunLens(text, pos) ==
    {k \in 1..(Len(text) - pos + 1) : \A i \in pos..(pos + k - 1) : IsSpaceChar(text[i])}

\* [0-5]\d at pos
IsMinSec(text, pos) ==
    /\ AllDigits(text, pos, 2)
    /\ DigitVal(text[pos]) <= 5

Colon(text, pos) == pos <= Len(text) /\ text[pos] = ":"

\* %z : [+-]\d\d:?[0-5]\d(:?[0-5]\d)? or Z; the colons before the minutes
\* and before the seconds must come together (ValueError otherwise);
\* fractions of a second in the offset are not modelled
OffsetLens(text, pos) ==
    IF pos <= Len(text) /\ text[pos] = "Z" THEN {1}
    ELSE IF pos <= Len(text) /\ text[pos] \in {"+", "-"} /\ AllDigits(text, pos + 1, 2)
    THEN LET c1 == IF Colon(text, pos + 3) THEN 1 ELSE 0
             m == pos + 3 + c1
         IN IF ~IsMinSec(text, m) THEN {}
            ELSE LET c2 == IF Colon(text, m + 2) THEN 1 ELSE 0
                     withSec == IsMinSec(text, m + 2 + c2) /\ c1 = c2
                 IN {m + 2 - pos} \cup (IF withSec THEN {m + 4 + c2 - pos} ELSE {})
    ELSE {}

\* the five formats of format_date_for_filename, directive by directive;
\* a blank of the format stands for \s+
Lit(c) == [k |-> "lit", c |-> c]
Dir(d) == [k |-> d, c |-> ""]
DateFormats == <<
    <<Dir("Y"), Lit("-"), Dir("m"), Lit("-"), Dir("d")>>,
    <<Dir("Y"), Lit("-"), Dir("m"), Lit("-"), Dir("d"), Lit("T"),
      Dir("H"), Lit(":"), Dir("M"), Lit(":"), Dir("S"), Dir("z")>>,
    <<Dir("Y"), Lit("-"), Dir("m"), Lit("-"), Dir("d"), Lit("T"),
      Dir("H"), Lit(":"), Dir("M"), Lit(":"), Dir("S"), Lit("Z")>>,
    <<Dir("a"), Lit(","), Dir("ws"), Dir("d"), Dir("ws"), Dir("b"), Dir("ws"), Dir("Y"),
      Dir("ws"), Dir("H"), Lit(":"), Dir("M"), Lit(":"), Dir("S"), Dir("ws"), Dir("z")>>,
    <<Dir("a"), Lit(","), Dir("ws"), Dir("d"), Dir("ws"), Dir("b"), Dir("ws"), Dir("Y"),
      Dir("ws"), Dir("H"), Lit(":"), Dir("M"), Lit(":"), Dir("S"), Dir("ws"), Dir("Z")>>
>>

\* a partial parse: next position and the fields found so far
ParseStart == [pos |-> 1, y |-> 0, m |-> 0, d |-> 0, sec |-> 0]

Advance(st, n) == [st EXCEPT !.pos = st.pos + n]

\* the parses that one item of a format allows after the partial parse st
StepItem(item, st, text) ==
    LET pos == st.pos IN
    CASE item.k = "lit" ->
            IF pos <= Len(text) /\ LowerChar(text[pos]) = LowerChar(item.c)
            THEN {Advance(st, 1)} ELSE {}
      [] item.k = "ws" -> {Advance(st, n) : n \in SpaceRunLens(text, pos)}
      [] item.k = "Y" ->
            {[Advance(st, r.len) EXCEPT !.y = r.val] : r \in NumMatches(text, pos, {4}, 0, 9999)}
      [] item.k = "m" ->
            {[Advance(st, r.len) EXCEPT !.m = r.val] : r \in NumMatches(text, pos, {1, 2}, 1, 12)}
      [] item.k = "d" ->
            {[Advance(st, r.len) EXCEPT !.d = r.val] : r \in NumMatches(text, pos, {1, 2}, 1, 31)}
            \cup (IF pos <= Len(text) /\ text[pos] = " "
                  THEN {[Advance(st, 1 + r.len) EXCEPT !.d = r.val] :
                            r \in NumMatches(text, pos + 1, {1}, 1, 9)}
                  ELSE {})
      [] item.k = "H" -> {Advance(st, r.len) : r \in NumMatches(text, pos, {1, 2}, 0, 23)}
      [] item.k = "M" -> {Advance(st, r.len) : r \in NumMatches(text, pos, {1, 2}, 0, 59)}
      [] item.k = "S" ->
            {[Advance(st, r.len) EXCEPT !.sec = r.val] : r \in NumMatches(text, pos, {1, 2}, 0, 61)}
      [] item.k = "z" -> {Advance(st, n) : n \in OffsetLens(text, pos)}
      [] item.k = "Z" -> {Advance(st, r.len) : r \in NameMatches(text, pos, ZoneNames)}
      [] item.k = "a" -> {Advance(st, r.len) : r \in NameMatches(text, pos, WeekdayNames)}
      [] item.k = "b" ->
            {[Advance(st, r.len) EXCEPT !.m = r.val] : r \in NameMatches(text, pos, MonthNames)}

RECURSIVE ParseFrom(_, _, _)
ParseFrom(fmt, sts, text) ==
    IF fmt = <<>> \/ sts = {} THEN sts
    ELSE ParseFrom(Tail(fmt), UNION {StepItem(Head(fmt), st, text) : st \in sts}, text)

IsLeap(y) == (y % 4 = 0 /\ y % 100 # 0) \/ y % 400 = 0

DaysInMonth(y, m) ==
    IF m = 2 THEN (IF IsLeap(y) THEN 29 ELSE 28)
    ELSE IF m \in {4, 6, 9, 11} THEN 30 ELSE 31

ValidDate(y, m, d) == y >= 1 /\ m \in 1..12 /\ d \in 1..DaysInMonth(y, m)

NoDate == [y |-> 0, m |-> 0, d |-> 0]

\* datetime.strptime(date_str, fmt): the date parsed, or NoDate for ValueError
\* (no match, unconverted data, a day the month does not have, second 60/61)
strptime(text, fmt) ==
    LET full == {st \in ParseFrom(fmt, {ParseStart}, text) :
                     /\ st.pos = Len(text) + 1
                     /\ ValidDate(st.y, st.m, st.d)
                     /\ st.sec <= 59}
    IN IF full = {} THEN NoDate
       ELSE LET st == CHOOSE x \in full : TRUE IN [y |-> st.y, m |-> st.m, d |-> st.d]

\* a number as decimal digits, zero-padded to a width
RECURSIVE DigitsOf(_, _)
DigitsOf(n, width) ==
    IF width = 0 THEN <<>>
    ELSE DigitsOf(n \div 10, width - 1) \o <<Digits[(n % 10) + 1]>>

\* a number as decimal digits, without padding
RECURSIVE DecimalOf(_)
DecimalOf(n) ==
    IF n < 10 THEN <<Digits[n + 1]>>
    ELSE DecimalOf(n \div 10) \o <<Digits[(n % 10) + 1]>>

\* dt.strftime('%Y-%m-%d'); the C library does not pad %Y
strftime(dt) == DecimalOf(dt.y) \o <<"-">> \o DigitsOf(dt.m, 2) \o <<"-">> \o DigitsOf(dt.d, 2)

\* the first format, in order, that parses the text (0: none)
RECURSIVE FirstMatch(_, _)
FirstMatch(text, i) ==
    IF i > Len(DateFormats) THEN 0
    ELSE IF strptime(text, DateFormats[i]) # NoDate THEN i
         ELSE FirstMatch(text, i + 1)

\* (mutation of format_date_for_filename: the current date is always used)
format_date_today(date_str, now) == strftime(now)

\* format_date_for_filename(date_str), called when the UTC date is `now`
format_date_for_filename(date_str, now) ==
    IF date_str = <<>> THEN strftime(now)
    ELSE LET i == FirstMatch(date_str, 1)
         IN IF i = 0 THEN strftime(now) ELSE strftime(strptime(date_str, DateFormats[i]))

(* ------------------- generate_summary, create_markdown_summary --------- *)

\* a Python value as the payload and the locals hold it: t is its type
Val(t, v) == [t |-> t, v |-> v]
PyNone == NoneVal
Str(text) == Val("str", text)
Absent == AbsentVal

\* truthiness of a value: None and "" are false
IsTrue(x) == ~(x.t \in {"none", "absent"}) /\ ~(x.t = "str" /\ x.v = <<>>)

\* the text an f-string puts for a value
Fmt(x) == IF x.t = "none" THEN <<"None">> ELSE x.v

\* 'has_transcript': transcript is not None
HasTranscript(tr) == tr # PyNone

FullShort == <<
    <<"Episode discusses key topics (to be analyzed from transcript)">>,
    <<"Main themes and discussions covered">>,
    <<"Notable insights shared by speakers">>,
    <<"Practical applications and examples">>,
    <<"Conclusions and final thoughts">> >>

FullDetailed == <<
    <<"Introduction and context setting">>,
    <<"First major topic: [to be extracted from transcript]">>,
    <<"Second major topic: [to be extracted from transcript]">>,
    <<"Third major topic: [to be extracted from transcript]">>,
    <<"Discussion of implications and applications">>,
    <<"Q&A or audience interaction (if applicable)">>,
    <<"Key examples and case studies mentioned">>,
    <<"Expert opinions and perspectives shared">>,
    <<"Technical details and specifications (if applicable)">>,
    <<"Future outlook and predictions">>,
    <<"Closing remarks and next steps">> >>

FullTakeaways == <<
    <<"Key insight #1 from the episode">>,
    <<"Key insight #2 from the episode">>,
    <<"Key insight #3 from the episode">>,
    <<"Key insight #4 from the episode">>,
    <<"Key insight #5 from the episode">> >>

FullActions == <<
    <<"Suggested action based on episode content">>,
    <<"Resources to explore further">>,
    <<"Practices to implement">> >>

LimitedShort(ttl, pub, url) == <<
    <<"Episode titled: ">> \o Fmt(ttl),
    <<"Transcript not available; summary is limited.">>,
    <<"Please listen to the full episode for complete details.">>,
    <<"Published: ">> \o Fmt(pub),
    <<"Available at: ">> \o Fmt(url) >>

LimitedDetailed == <<
    <<"Detailed summary requires transcript analysis.">>,
    <<"Transcript was not available at the time of processing.">>,
    <<"Please refer to the episode URL for full content.">> >>

LimitedTakeaways(url) == <<
    <<"Full transcript needed for detailed takeaways.">>,
    <<"Please listen to the episode directly.">>,
    <<"Episode URL: ">> \o Fmt(url) >>

\* generate_summary(title, published, episode_url, transcript)
generate_summary(ttl, pub, url, tr) ==
    IF IsTrue(tr)
    THEN [title |-> ttl, published |-> pub, episode_url |-> url,
          has_transcript |-> HasTranscript(tr),
          short_summary |-> FullShort,
          detailed_summary |-> FullDetailed,
          key_takeaways |-> FullTakeaways,
          action_items |-> FullActions]
    ELSE [title |-> ttl, published |-> pub, episode_url |-> url,
          has_transcript |-> HasTranscript(tr),
          short_summary |-> LimitedShort(ttl, pub, url),
          detailed_summary |-> LimitedDetailed,
          key_takeaways |-> LimitedTakeaways(url),
          action_items |-> <<>>]

\* the lines f"- {bullet}" of a list
Bullets(items) == [i \in DOMAIN items |-> <<"- ">> \o items[i]]

BlankLine == <<>>
NoteLine == <<"> **Note:** Transcript not available; summary is limited.">>
ActionHeading == <<"## Action Items">>

\* create_markdown_summary(summary): the lines that "\n".join puts together
create_markdown_summary(doc) ==
    << <<"# ">> \o Fmt(doc.title), BlankLine,
       <<"**Published:** ">> \o Fmt(doc.published), BlankLine,
       <<"**Source:** [">> \o Fmt(doc.episode_url) \o <<"](">>
           \o Fmt(doc.episode_url) \o <<")">>, BlankLine >>
    \o (IF ~doc.has_transcript THEN <<NoteLine, BlankLine>> ELSE <<>>)
    \o << <<"## Short Summary">>, BlankLine >>
    \o Bullets(doc.short_summary) \o <<BlankLine>>
    \o << <<"## Detailed Summary">>, BlankLine >>
    \o Bullets(doc.detailed_summary) \o <<BlankLine>>
    \o << <<"## Key Takeaways">>, BlankLine >>
    \o Bullets(doc.key_takeaways) \o <<BlankLine>>
    \o (IF doc.action_items # <<>>
        THEN <<ActionHeading, BlankLine>> \o Bullets(doc.action_items) \o <<BlankLine>>
        ELSE <<>>)

(* ----------------------- sanitize_filename alone ----------------------- *)

\* characters the titles are drawn from: upper and lower case letters, a
\* digit, the underscore, whitespace, the hyphen and a special character
TitleChars == {"A", "b", "1", "_", " ", "-", "!"}

\* all texts over a set of characters, up to a length
RECURSIVE TextsUpTo(_, _)
TextsUpTo(chars, n) ==
    IF n = 0 THEN {<<>>}
    ELSE LET shorter == TextsUpTo(chars, n - 1)
         IN shorter \cup {<<c>> \o t : c \in chars, t \in {u \in shorter : Len(u) = n - 1}}

\* a prefix that brings a text up to the truncation point
LongPrefix == [i \in 1..(max_length - 2) |-> "a"]

ExampleTitle == <<"H", "e", "l", "l", "o", ",", " ", "W", "o", "r", "l", "d", "!", " ", "E", "p", ".", " ", "2", "0", "2", "4">>
ExampleSlug == <<"h", "e", "l", "l", "o", "-", "w", "o", "r", "l", "d", "-", "e", "p", "-", "2", "0", "2", "4">>

Titles ==
    LET short == TextsUpTo(TitleChars, MaxTitleLen)
    IN short \cup {LongPrefix \o t : t \in short} \cup {ExampleTitle}

InitSlug ==
    /\ slugIn \in Titles
    /\ slugOut = <<>>
    /\ slugDone = FALSE
    /\ WInit
    /\ NamingIdle
    /\ PublisherIdle

\* sanitize_filename(title), as main calls it
Sanitize ==
    /\ ~slugDone
    /\ slugOut' = sanitize_filename(slugIn, max_length)
    /\ slugDone' = TRUE
    /\ UNCHANGED <<slugIn, wvars, nvars, pvars>>

NextSlug == Sanitize

SpecSlug == InitSlug /\ [][NextSlug]_vars

(* --------------------------- file naming ------------------------------- *)

\* f"{safe_date}-{safe_title}.md"
FileName(sdate, stitle) == sdate \o <<"-">> \o stitle \o <<".md">>

\* pathlib.Path('summaries') / filename
SummaryPath(sdate, stitle) == <<"summaries/">> \o FileName(sdate, stitle)

\* f"ai/podcast-{safe_date}-{safe_title}"
BranchName(sdate, stitle) == <<"ai/podcast-">> \o sdate \o <<"-">> \o stitle

\* the names main derives from title and published on the day `now`
DerivedNames(ttl, pub, now) ==
    LET sdate == format_date_for_filename(pub, now)
        stitle == sanitize_filename(ttl, max_length)
    IN [safe_date |-> sdate,
        safe_title |-> stitle,
        path |-> SummaryPath(sdate, stitle),
        branch |-> BranchName(sdate, stitle)]

\* the day after
NextDay(dt) ==
    IF dt.d < DaysInMonth(dt.y, dt.m) THEN [dt EXCEPT !.d = dt.d + 1]
    ELSE IF dt.m < 12 THEN [y |-> dt.y, m |-> dt.m + 1, d |-> 1]
         ELSE [y |-> dt.y + 1, m |-> 1, d |-> 1]

RECURSIVE DaysAfter(_, _)
DaysAfter(dt, n) == IF n = 0 THEN dt ELSE DaysAfter(NextDay(dt), n - 1)

EpisodeTitle == <<"E", "p", " ", "1">>

\* values of `published` the payloads carry
PublishedTexts == {
    <<>>,
    <<"2", "0", "2", "4", "-", "0", "1", "-", "0", "5">>,
    <<"2", "0", "2", "4", "-", "1", "-", "5">>,
    <<"n", "o", "t", "-", "a", "-", "d", "a", "t", "e">>,
    <<"2", "0", "2", "4", "-", "0", "2", "-", "3", "0">>,
    <<"2", "0", "2", "4", "-", "0", "1", "-", "0", "5", "T", "1", "0", ":", "0", "0", ":", "0", "0", "+", "0", "1", "0", "0">>,
    <<"2", "0", "2", "4", "-", "0", "1", "-", "0", "5", "T", "1", "0", ":", "0", "0", ":", "0", "0", "Z">>,
    <<"F", "r", "i", ",", " ", "0", "5", " ", "J", "a", "n", " ", "2", "0", "2", "4", " ", "1", "0", ":", "0", "0", ":", "0", "0", " ", "+", "0", "0", "0", "0">>,
    <<"F", "r", "i", ",", " ", "0", "5", " ", "J", "a", "n", " ", "2", "0", "2", "4", " ", "1", "0", ":", "0", "0", ":", "0", "0", " ", "G", "M", "T">>,
    <<"F", "r", "i", ",", " ", "0", "5", " ", "J", "a", "n", " ", "2", "0", "2", "4", " ", "1", "0", ":", "0", "0", ":", "0", "0", " ", "E", "S", "T">>,
    <<"2", "0", "2", "4", "-", "0", "1", "-", "0", "5", "T", "1", "0", ":", "0", "0", ":", "6", "0", "Z">>
}

NamingTitles == {<<>>, EpisodeTitle, ExampleTitle}

InitNaming ==
    /\ nmTitle \in NamingTitles
    /\ nmPublished \in PublishedTexts
    /\ today = StartDay
    /\ names = <<>>
    /\ WInit
    /\ SlugIdle
    /\ PublisherIdle

\* main, lines 420-429 and 468: one invocation derives its names
DeriveNames ==
    /\ Len(names) < MaxInvocations
    /\ names' = Append(names, DerivedNames(nmTitle, nmPublished, today))
    /\ UNCHANGED <<nmTitle, nmPublished, today, wvars, svars, pvars>>

\* midnight UTC passes
Tick ==
    /\ today # DaysAfter(StartDay, MaxDays)
    /\ today' = NextDay(today)
    /\ UNCHANGED <<nmTitle, nmPublished, names, wvars, svars, pvars>>

NextNaming == DeriveNames \/ Tick

SpecNaming == InitNaming /\ [][NextNaming]_vars

(* ======================================================================= *)
(*                       SUMMARY PUBLISHER: main                           *)
(* ======================================================================= *)

AudioUrl == <<"http://x/1.mp3">>
EpisodeUrl == <<"http://x/1">>

\* field values of the payloads tried: key missing, null, a string, a number
TitleVals == {Absent, PyNone, Str(EpisodeTitle)}
PublishedVals == {Absent, PyNone, Str(<<"2", "0", "2", "4", "-", "0", "1", "-", "0", "5">>), Str(<<"n", "o", "t", "-", "a", "-", "d", "a", "t", "e">>), Val("num", <<"5">>)}
EpisodeUrlVals == {Absent, Str(EpisodeUrl)}
AudioUrlVals == {Absent, PyNone, Str(<<>>), Str(AudioUrl)}

\* JSON documents: objects, and values that are valid JSON but no object
ObjectDocs ==
    {[kind |-> "object", title |-> t, published |-> p, episodeUrl |-> e, audioUrl |-> a] :
        t \in TitleVals, p \in PublishedVals, e \in EpisodeUrlVals, a \in AudioUrlVals}
OtherDocs == {[NoDoc EXCEPT !.kind = k] : k \in {"null", "list"}}
Docs == ObjectDocs \cup OtherDocs

\* a text handed to the process: empty, not JSON, or a JSON document
Texts ==
    {[t |-> "empty", doc |-> NoDoc], [t |-> "invalid", doc |-> NoDoc]}
        \cup {[t |-> "json", doc |-> d] : d \in Docs}

EnvUnset == [t |-> "unset", doc |-> NoDoc]

\* `not payload_json`
NoText(x) == x.t \in {"unset", "empty"}

\* a publication step that was attempted, and whether it succeeded
Event(step, ok) == [step |-> step, ok |-> ok]

\* payload.get(key, default)
Get(field, default) == IF field = Absent THEN default ELSE field

InitPublisher ==
    /\ envPayload \in {EnvUnset} \cup Texts
    /\ stdinText \in Texts
    /\ NoText(envPayload) \/ stdinText.t = "empty"
    /\ PublisherFresh
    /\ WInit
    /\ SlugIdle
    /\ NamingIdle

\* main, lines 396-410: the payload is read and parsed, or sys.exit(1)
ReadPayload ==
    /\ ppc = "start"
    /\ LET payload_json == IF NoText(envPayload) THEN stdinText ELSE envPayload
       IN IF NoText(payload_json) \/ payload_json.t = "invalid"
          THEN /\ ppc' = "exit1"
               /\ UNCHANGED payload
          ELSE /\ ppc' = "parsed"
               /\ payload' = payload_json.doc
    /\ UNCHANGED <<envPayload, stdinText, title, published, episode_url,
                   audio_url, safe_date, safe_title, transcript, summary,
                   tool, summaryFile, tempAudio, audioLog, git, events, wvars, svars,
                   nvars>>

\* main, lines 413-434: the fields and the file names; a payload that is
\* no object (AttributeError at 413), a published that is a number (TypeError
\* in strptime) or a title that is no string (AttributeError at 31) end the
\* process with a traceback
Extract ==
    /\ ppc = "parsed"
    /\ IF payload.kind # "object"
       THEN /\ ppc' = "crashed"
            /\ UNCHANGED <<title, published, episode_url, audio_url, safe_date, safe_title>>
       ELSE LET t == Get(payload.title, Str(<<"Untitled Episode">>))
                p == Get(payload.published, Str(<<>>))
            IN /\ title' = t
               /\ published' = p
               /\ episode_url' = Get(payload.episodeUrl, Str(<<>>))
               /\ audio_url' = Get(payload.audioUrl, PyNone)
               /\ IF IsTrue(p) /\ p.t # "str"
                  THEN /\ ppc' = "crashed"
                       /\ UNCHANGED <<safe_date, safe_title>>
                  ELSE /\ safe_date' = format_date_for_filename(p.v, today)
                       /\ IF t.t # "str"
                          THEN /\ ppc' = "crashed"
                               /\ UNCHANGED safe_title
                          ELSE /\ safe_title' = sanitize_filename(t.v, max_length)
                               /\ ppc' = "named"
    /\ UNCHANGED <<envPayload, stdinText, payload, transcript, summary,
                   tool, summaryFile, tempAudio, audioLog, git, events, wvars, svars,
                   nvars>>

\* main, lines 437-438: no audio URL, no transcription attempt
NoAudio ==
    /\ ppc = "named"
    /\ ~IsTrue(audio_url)
    /\ ppc' = "summarize"
    /\ UNCHANGED <<envPayload, stdinText, payload, title, published,
                   episode_url, audio_url, safe_date, safe_title,
                   transcript, summary, tool, summaryFile, tempAudio, audioLog, git,
                   events, wvars, svars, nvars>>

\* main, lines 438-444, download_audio: the audio is downloaded
DownloadOk ==
    /\ ppc = "named"
    /\ IsTrue(audio_url)
    /\ tempAudio' = TRUE
    /\ audioLog' = Append(audioLog, Event("download", TRUE))
    /\ ppc' = "downloaded"
    /\ UNCHANGED <<envPayload, stdinText, payload, title, published,
                   episode_url, audio_url, safe_date, safe_title,
                   transcript, summary, tool, summaryFile, git, events,
                   wvars, svars, nvars>>

\* main, lines 443 and 454-455, download_audio: the download fails, before
\* the file is opened or while it is written
DownloadFails ==
    /\ ppc = "named"
    /\ IsTrue(audio_url)
    /\ \E partial \in BOOLEAN : tempAudio' = partial
    /\ audioLog' = Append(audioLog, Event("download", FALSE))
    /\ ppc' = "summarize"
    /\ UNCHANGED <<envPayload, stdinText, payload, title, published,
                   episode_url, audio_url, safe_date, safe_title,
                   transcript, summary, tool, summaryFile, git, events,
                   wvars, svars, nvars>>

\* transcribe_audio, lines 123-131: `which whisper`
WhichWhisper ==
    /\ ppc = "downloaded"
    /\ \E found \in {"yes", "no", "raised"} :
          IF found = "yes"
          THEN /\ ppc' = "whisper"
               /\ UNCHANGED tool
          ELSE /\ ppc' = "cleanup"
               /\ tool' = IF found = "no" THEN "absent" ELSE "error"
    /\ UNCHANGED <<envPayload, stdinText, payload, title, published,
                   episode_url, audio_url, safe_date, safe_title,
                   transcript, summary, summaryFile, tempAudio, audioLog, git, events,
                   wvars, svars, nvars>>

\* transcribe_audio, lines 133-141: the whisper run
RunWhisper ==
    /\ ppc = "whisper"
    /\ \E rc \in {"zero", "nonzero", "raised"} :
          IF rc = "zero"
          THEN /\ ppc' = "readtxt"
               /\ UNCHANGED tool
          ELSE /\ ppc' = "cleanup"
               /\ tool' = IF rc = "nonzero" THEN "failed" ELSE "error"
    /\ UNCHANGED <<envPayload, stdinText, payload, title, published,
                   episode_url, audio_url, safe_date, safe_title,
                   transcript, summary, summaryFile, tempAudio, audioLog, git, events,
                   wvars, svars, nvars>>

\* transcribe_audio, lines 143-150: the text file whisper wrote is read back
ReadTranscript ==
    /\ ppc = "readtxt"
    /\ \E txt \in {"missing", "unreadable", "empty", "text"} :
          /\ transcript' = CASE txt = "empty" -> Str(<<>>)
                             [] txt = "text" -> Str(<<"words spoken">>)
                             [] OTHER -> PyNone
          /\ tool' = CASE txt = "missing" -> "no_output"
                       [] txt = "unreadable" -> "error"
                       [] OTHER -> "read"
    /\ ppc' = "cleanup"
    /\ UNCHANGED <<envPayload, stdinText, payload, title, published,
                   episode_url, audio_url, safe_date, safe_title, summary,
                   summaryFile, tempAudio, audioLog, git, events, wvars, svars, nvars>>

\* Cleanup without the unlink: the temporary audio stays where it is
Cleanup_skipped ==
    /\ ppc = "cleanup"
    /\ ppc' = "summarize"
    /\ UNCHANGED <<envPayload, stdinText, payload, title, published,
                   episode_url, audio_url, safe_date, safe_title,
                   transcript, summary, tool, summaryFile, tempAudio,
                   audioLog, git, events, wvars, svars, nvars>>

\* main, lines 449-453: temp_audio.unlink(), a failure is ignored
Cleanup ==
    /\ ppc = "cleanup"
    /\ \E removed \in BOOLEAN :
          /\ tempAudio' = ~removed
          /\ audioLog' = Append(audioLog, Event("unlink", removed))
    /\ ppc' = "summarize"
    /\ UNCHANGED <<envPayload, stdinText, payload, title, published,
                   episode_url, audio_url, safe_date, safe_title,
                   transcript, summary, tool, summaryFile, git, events,
                   wvars, svars, nvars>>

\* main, lines 457-465: the summary is generated, rendered and written
WriteSummary ==
    /\ ppc = "summarize"
    /\ LET doc == generate_summary(title, published, episode_url, transcript)
       IN /\ summary' = doc
          /\ summaryFile' = create_markdown_summary(doc)
    /\ events' = Append(events, Event("write_summary", TRUE))
    /\ ppc' = "branch"
    /\ UNCHANGED <<envPayload, stdinText, payload, title, published,
                   episode_url, audio_url, safe_date, safe_title,
                   transcript, tool, tempAudio, audioLog, git, wvars, svars, nvars>>

\* create_git_branch, lines 314-317: git config, twice; the exit codes are
\* ignored, an exception (no git) is not
GitConfig ==
    /\ ppc = "branch"
    /\ \E raised \in BOOLEAN :
          /\ events' = Append(events, Event("git_config", ~raised))
          /\ ppc' = IF raised THEN "complete" ELSE "checkout"
    /\ UNCHANGED <<envPayload, stdinText, payload, title, published,
                   episode_url, audio_url, safe_date, safe_title,
                   transcript, summary, tool, summaryFile, tempAudio, audioLog, git,
                   wvars, svars, nvars>>

\* (mutation of GitCheckout: the outcome of the checkout is not looked at)
GitCheckout_unchecked ==
    /\ ppc = "checkout"
    /\ \E created \in BOOLEAN :
          /\ events' = Append(events, Event("git_checkout", created))
          /\ git' = [git EXCEPT !.branch = created]
          /\ ppc' = "add"
    /\ UNCHANGED <<envPayload, stdinText, payload, title, published,
                   episode_url, audio_url, safe_date, safe_title, transcript,
                   summary, tool, summaryFile, tempAudio, audioLog, wvars, svars, nvars>>

\* create_git_branch, lines 319-329, and main, lines 469-470, 499-502
GitCheckout ==
    /\ ppc = "checkout"
    /\ \E created \in BOOLEAN :
          /\ events' = Append(events, Event("git_checkout", created))
          /\ git' = [git EXCEPT !.branch = created]
          /\ ppc' = IF created THEN "add" ELSE "complete"
    /\ UNCHANGED <<envPayload, stdinText, payload, title, published,
                   episode_url, audio_url, safe_date, safe_title,
                   transcript, summary, tool, summaryFile, tempAudio, audioLog, wvars,
                   svars, nvars>>

\* commit_and_push, lines 344-346
GitAdd ==
    /\ ppc = "add"
    /\ \E ok \in BOOLEAN :
          /\ events' = Append(events, Event("git_add", ok))
          /\ git' = [git EXCEPT !.staged = ok]
          /\ ppc' = IF ok THEN "commit" ELSE "complete"
    /\ UNCHANGED <<envPayload, stdinText, payload, title, published,
                   episode_url, audio_url, safe_date, safe_title,
                   transcript, summary, tool, summaryFile, tempAudio, audioLog, wvars,
                   svars, nvars>>

\* commit_and_push, lines 348-349
GitCommit ==
    /\ ppc = "commit"
    /\ \E ok \in BOOLEAN :
          /\ events' = Append(events, Event("git_commit", ok))
          /\ git' = [git EXCEPT !.committed = ok]
          /\ ppc' = IF ok THEN "push" ELSE "complete"
    /\ UNCHANGED <<envPayload, stdinText, payload, title, published,
                   episode_url, audio_url, safe_date, safe_title,
                   transcript, summary, tool, summaryFile, tempAudio, audioLog, wvars,
                   svars, nvars>>

\* commit_and_push, lines 351-357, and main, lines 474-475, 497-498
GitPush ==
    /\ ppc = "push"
    /\ \E ok \in BOOLEAN :
          /\ events' = Append(events, Event("git_push", ok))
          /\ git' = [git EXCEPT !.pushed = ok]
          /\ ppc' = IF ok THEN "pr" ELSE "complete"
    /\ UNCHANGED <<envPayload, stdinText, payload, title, published,
                   episode_url, audio_url, safe_date, safe_title,
                   transcript, summary, tool, summaryFile, tempAudio, audioLog, wvars,
                   svars, nvars>>

\* create_pull_request, lines 372-389, and main, lines 477-502
CreatePullRequest ==
    /\ ppc = "pr"
    /\ \E ok \in BOOLEAN :
          /\ events' = Append(events, Event("pr_create", ok))
          /\ git' = [git EXCEPT !.pr = ok]
    /\ ppc' = "complete"
    /\ UNCHANGED <<envPayload, stdinText, payload, title, published,
                   episode_url, audio_url, safe_date, safe_title,
                   transcript, summary, tool, summaryFile, tempAudio, audioLog, wvars,
                   svars, nvars>>

NextPublisher ==
    \/ ReadPayload
    \/ Extract
    \/ NoAudio
    \/ DownloadOk
    \/ DownloadFails
    \/ WhichWhisper
    \/ RunWhisper
    \/ ReadTranscript
    \/ Cleanup
    \/ WriteSummary
    \/ GitConfig
    \/ GitCheckout
    \/ GitAdd
    \/ GitCommit
    \/ GitPush
    \/ CreatePullRequest

\* Summary Publisher, one invocation
SpecPublisher == InitPublisher /\ [][NextPublisher]_vars

(* ------------------------- Feed Watcher claims ------------------------- *)

\* the entry that was at index 0 of the feed when run p fetched it
NewestAtFetch(p) == feed[Len(feed) - seenLen[p] + 1]

Fetched(p) == latest[p] # NoEntry

Failed(s) == s # NoStatus /\ ~Is2xx(s)

LastPost == posts[Len(posts)]

\* C1: a run whose webhook POST returned a non-2xx response (or raised) ends
\* in failure with the state file as it was before the run, and the next run
\* against the same feed entry posts that episode again.
C1_FailedPostKeepsState ==
    \A p \in SeqProcs :
        /\ (Failed(status[p]) /\ Ended(p)) =>
               /\ pc[p] \in {"exit_fail", "crashed"}
               /\ stateFile = preFile[p]
        /\ (Failed(prevEnd[p].status) /\ Fetched(p) /\ latest[p] = prevEnd[p].entry) =>
               /\ pc[p] # "exit_nonew"
               /\ (nposts[p] = 1 => LastPost.entry = prevEnd[p].entry)

\* C2: a run that finds the newest entry's identifier equal to the stored
\* last_guid ends successfully without any POST and without touching the
\* state file; every run that follows a successful delivery of the same
\* entry is such a run.
C2_IdempotenceGuard ==
    \A p \in SeqProcs :
        /\ (Fetched(p) /\ guid[p] = preFile[p].last_guid) =>
               /\ pc[p] = "exit_nonew"
               /\ nposts[p] = 0
               /\ nwrites[p] = 0
               /\ stateFile = preFile[p]
        /\ (Fetched(p) /\ prevEnd[p].how \in {"ok", "nonew"}
                /\ latest[p] = prevEnd[p].entry) =>
               /\ pc[p] = "exit_nonew"
               /\ stateFile = preFile[p]

C2_Witness ==
    \E p \in SeqProcs :
        /\ pc[p] = "exit_nonew"
        /\ prevEnd[p].how = "ok"
        /\ preFile[p].exists
        /\ runs >= 2

\* C3: a run writes the state at most once and posts at most once; a write of
\* last_guid = g comes after exactly one POST of the run, which carried the
\* entry identified by g and returned 2xx; after a crash between a
\* successful POST and the write, the next run posts the same episode again.
C3_WriteOnlyAfterConfirmedPost ==
    \A p \in SeqProcs :
        /\ nwrites[p] <= 1
        /\ nposts[p] <= 1
        /\ nwrites[p] = 1 =>
               /\ nposts[p] = 1
               /\ Is2xx(status[p])
               /\ LastPost.entry = latest[p]
               /\ stateFile = save_state(EntryGuid(latest[p]))
        /\ (prevEnd[p].how = "crashed" /\ Is2xx(prevEnd[p].status)
                /\ Fetched(p) /\ latest[p] = prevEnd[p].entry) =>
               /\ pc[p] # "exit_nonew"
               /\ (nposts[p] = 1 => LastPost.entry = prevEnd[p].entry)

\* C4: with no state file, every feed with at least one entry makes the run
\* post the newest entry (index 0) instead of taking the "no new episode"
\* exit, and a 2xx answer persists that entry's identifier.
C4_AbsentStateAlwaysPosts ==
    \A p \in SeqProcs :
        (~preFile[p].exists /\ Fetched(p)) =>
            /\ latest[p] = NewestAtFetch(p)
            /\ pc[p] # "exit_nonew"
            /\ (nposts[p] = 1 => LastPost.entry = latest[p])
            /\ (pc[p] = "exit_ok" /\ Is2xx(status[p])) =>
                   stateFile = save_state(EntryGuid(latest[p]))

\* C4 (amended): the same, for feeds whose newest entry yields an
\* identifier (guid, id or link) other than None.
C4_AbsentStatePostsIdentified ==
    \A p \in SeqProcs :
        (~preFile[p].exists /\ Fetched(p)
             /\ EntryGuid(NewestAtFetch(p)) # None) =>
            /\ latest[p] = NewestAtFetch(p)
            /\ pc[p] # "exit_nonew"
            /\ (nposts[p] = 1 => LastPost.entry = latest[p])
            /\ (pc[p] = "exit_ok" /\ Is2xx(status[p])) =>
                   stateFile = save_state(EntryGuid(latest[p]))

C4_Witness ==
    \E p \in SeqProcs :
        /\ ~preFile[p].exists
        /\ pc[p] = "exit_ok"
        /\ Is2xx(status[p])
        /\ seenLen[p] = 2
        /\ latest[p].guid = None
        /\ stateFile.last_guid = "i"

AllPostsSucceeded == \A i \in 1..Len(posts) : Is2xx(posts[i].status)

PostsOf(e) == Cardinality({i \in 1..Len(posts) : posts[i].entry = e})

\* C5: runs that do not overlap, against an unchanged feed and a webhook
\* that always succeeds, post an entry that is new exactly once; the
\* double post of one entry by two runs that read the same last_guid needs
\* overlapping runs (C5_Witness is that interleaving).
C5_SequentialPostsOnce ==
    (feed # <<>> /\ AllPostsSucceeded /\ ~overlapped
         /\ EntryGuid(NewestEntry(feed)) # None) =>
        /\ PostsOf(NewestEntry(feed)) <= 1
        /\ (\E p \in Procs : pc[p] \in {"exit_ok", "exit_nonew"}) =>
               PostsOf(NewestEntry(feed)) = 1

C5_Witness ==
    /\ overlapped
    /\ AllPostsSucceeded
    /\ \A p \in Procs :
          /\ nposts[p] = 1
          /\ preFile[p] = AbsentFile
          /\ latest[p] = NewestEntry(feed)
    /\ PostsOf(NewestEntry(feed)) = 2
    /\ runs = 2

(* ---------------------- sanitize_filename claims ----------------------- *)

\* the words of a text: maximal runs of word characters, lowercased, once
\* every character that is neither word, whitespace nor hyphen is dropped
RECURSIVE WordsOf(_, _)
WordsOf(text, cur) ==
    IF text = <<>> THEN (IF cur = <<>> THEN <<>> ELSE <<cur>>)
    ELSE LET c == Head(text)
         IN IF IsWordChar(c) THEN WordsOf(Tail(text), Append(cur, LowerChar(c)))
            ELSE IF c = "-" \/ IsSpaceChar(c)
                 THEN (IF cur = <<>> THEN <<>> ELSE <<cur>>) \o WordsOf(Tail(text), <<>>)
                 ELSE WordsOf(Tail(text), cur)

RECURSIVE JoinHyphen(_)
JoinHyphen(words) ==
    IF words = <<>> THEN <<>>
    ELSE IF Len(words) = 1 THEN words[1]
         ELSE words[1] \o <<"-">> \o JoinHyphen(Tail(words))

\* the slug the specification describes for a title
DescribedSlug(text) ==
    LET joined == JoinHyphen(WordsOf(text, <<>>))
        cut == Take(joined, max_length)
    IN IF cut # <<>> /\ cut[Len(cut)] = "-" THEN SubSeq(cut, 1, Len(cut) - 1) ELSE cut

SameNames(a, b) ==
    /\ a.safe_date = b.safe_date
    /\ a.safe_title = b.safe_title
    /\ a.path = b.path
    /\ a.branch = b.branch

\* `published` is matched by one of the known date formats
Parses(text) == text # <<>> /\ FirstMatch(text, 1) # 0

\* C8: two invocations with the same title and published derive the same
\* safe_date, safe_title, summary path and branch name, whenever they run.
C8_NamesReproducible ==
    \A i, j \in DOMAIN names : SameNames(names[i], names[j])

\* C8 (amended): the same, when published is matched by one of the known
\* date formats.
C8_NamesReproducibleWhenParsed ==
    Parses(nmPublished) =>
        \A i, j \in DOMAIN names :
            /\ SameNames(names[i], names[j])
            /\ names[i].path = <<"summaries/">> \o names[i].safe_date \o <<"-">>
                                   \o names[i].safe_title \o <<".md">>

\* two invocations on different days, of a payload whose date parses
C8_Witness ==
    /\ Len(names) = 2
    /\ today # StartDay
    /\ Parses(nmPublished)
    /\ nmTitle = EpisodeTitle
    /\ names[1].path = names[2].path
    /\ names[2].safe_date # strftime(today)

(* -------------------------- publisher claims --------------------------- *)

\* the text main parses: the environment variable, or else standard input
PayloadText == IF NoText(envPayload) THEN stdinText ELSE envPayload

ValidJson == PayloadText.t = "json"

\* C6: without a payload, or with one that is not valid JSON, the process
\* exits non-zero; with any valid JSON payload it never fails and, once past
\* its last step, has written the summary file and reached "Processing
\* complete", whatever download, transcription and git steps did.
C6_CompletesOnValidJson ==
    /\ (~ValidJson /\ ppc # "start") => ppc = "exit1"
    /\ ValidJson =>
           /\ ppc \notin {"exit1", "crashed"}
           /\ ppc = "complete" => summaryFile # NoFile

\* the publication chain, in the order main goes through it
Chain == <<"write_summary", "git_config", "git_checkout", "git_add",
           "git_commit", "git_push", "pr_create">>

Attempted(step) == \E i \in DOMAIN events : events[i].step = step
Succeeded(step) == \E i \in DOMAIN events : events[i] = Event(step, TRUE)

\* C7: the summary file is written before any git step; add/commit/push
\* come only after the branch was created, the pull request only after add,
\* commit and push succeeded; a failed step is the last publication step
\* attempted; what was done stays done (branch, staged file, commit, push,
\* the written file), and the process goes on to "Processing complete".
C7_PublicationChain ==
    /\ Len(events) <= Len(Chain)
    /\ \A i \in DOMAIN events : events[i].step = Chain[i]
    /\ \A i \in DOMAIN events : ~events[i].ok => Len(events) = i
    /\ Attempted("git_add") => Succeeded("git_checkout")
    /\ Attempted("pr_create") =>
           Succeeded("git_add") /\ Succeeded("git_commit") /\ Succeeded("git_push")
    /\ git.branch = Succeeded("git_checkout")
    /\ git.staged = Succeeded("git_add")
    /\ git.committed = Succeeded("git_commit")
    /\ git.pushed = Succeeded("git_push")
    /\ git.pr = Succeeded("pr_create")
    /\ Attempted("write_summary") =>
           /\ summaryFile = create_markdown_summary(summary)
           /\ ppc \notin {"exit1", "crashed"}
           /\ ppc # "complete" => ENABLED NextPublisher
    /\ (events # <<>> /\ ~events[Len(events)].ok) => ppc = "complete"

\* the commit failed after the branch was created: the branch is still
\* there, no push and no pull request were attempted, the process is complete
C7_Witness ==
    /\ ppc = "complete"
    /\ Len(events) = 5
    /\ events[5] = Event("git_commit", FALSE)
    /\ git.branch
    /\ git.staged
    /\ summaryFile # NoFile

HasLine(lines, line) == \E i \in DOMAIN lines : lines[i] = line

\* C10: the rendered markdown carries the "Transcript not available" note
\* exactly when generate_summary used the transcript-absent lists (so no
\* Action Items section), and omits it exactly when the transcript-present
\* lists (5 short, 11 detailed, 5 takeaways, 3 action items) are used.
C10_NoteMatchesLists ==
    summaryFile # NoFile =>
        LET note == HasLine(summaryFile, NoteLine)
            limited == /\ summary.short_summary = LimitedShort(title, published, episode_url)
                       /\ summary.detailed_summary = LimitedDetailed
                       /\ summary.action_items = <<>>
                       /\ ~HasLine(summaryFile, ActionHeading)
            full == /\ Len(summary.short_summary) = 5
                    /\ Len(summary.detailed_summary) = 11
                    /\ Len(summary.key_takeaways) = 5
                    /\ Len(summary.action_items) = 3
                    /\ summary.short_summary = FullShort
        IN /\ note <=> limited
           /\ ~note <=> full

\* the temporary audio: what was logged about it
Downloaded == \E i \in DOMAIN audioLog : audioLog[i] = Event("download", TRUE)
DownloadFailed == \E i \in DOMAIN audioLog : audioLog[i] = Event("download", FALSE)
UnlinkAttempted == \E i \in DOMAIN audioLog : audioLog[i].step = "unlink"

\* main is between the download and the unlink
Transcribing == ppc \in {"downloaded", "whisper", "readtxt", "cleanup"}

\* how a transcription attempt can end: `which` finds no tool, the tool
\* exits non-zero, an exception (timeout included), no .txt file, a transcript
FailedOutcomes == {"absent", "failed", "error", "no_output"}
ToolOutcomes == FailedOutcomes \cup {"read"}

\* C11: once the download succeeded and main is past the transcription
\* attempt, the attempt ended in one of the five outcomes and the unlink of
\* the temporary audio was attempted, whatever the outcome (the file is gone
\* unless the unlink failed), and this before the summary is generated; the
\* unlink is attempted only after a successful download; a failed download
\* and every failed transcription outcome leave transcript = None; and after
\* a download attempt the process never exits on an error or crashes, always
\* has a next step until the summary is written, and the written file is the
\* rendering of the summary generated for that transcript.
C11_TempAudioRemoved ==
    /\ Len(audioLog) <= 2
    /\ audioLog # <<>> => audioLog[1].step = "download"
    /\ UnlinkAttempted => Downloaded
    /\ (Downloaded /\ ~Transcribing) =>
           /\ Len(audioLog) = 2
           /\ audioLog[2].step = "unlink"
           /\ tempAudio = ~audioLog[2].ok
           /\ tool \in ToolOutcomes
    /\ (Downloaded /\ Transcribing) =>
           /\ ~UnlinkAttempted
           /\ tempAudio
           /\ summary = EmptySummary
           /\ summaryFile = NoFile
           /\ events = <<>>
    /\ (DownloadFailed \/ tool \in FailedOutcomes) => transcript = PyNone
    /\ tool = "read" => transcript # PyNone
    /\ audioLog # <<>> =>
           /\ ppc \notin {"exit1", "crashed"}
           /\ (Transcribing \/ ppc = "summarize") =>
                  /\ summaryFile = NoFile
                  /\ ENABLED NextPublisher
           /\ ~(Transcribing \/ ppc = "summarize") =>
                  /\ Attempted("write_summary")
                  /\ summaryFile # NoFile
                  /\ summary = generate_summary(title, published, episode_url,
                                                transcript)
                  /\ summaryFile = create_markdown_summary(summary)

\* the download succeeded, whisper exited 0 but its .txt file was not
\* there, the unlink failed and was ignored: no transcript, the summary file
\* is written with the note, and the process is complete
C11_Witness ==
    /\ ppc = "complete"
    /\ audioLog = <<Event("download", TRUE), Event("unlink", FALSE)>>
    /\ tool = "no_output"
    /\ tempAudio
    /\ transcript = PyNone
    /\ summaryFile # NoFile
    /\ HasLine(summaryFile, NoteLine)

====
